---- MODULE Spec2Model ----
(***************************************************************************)
(* Model of the DNG de-squeeze batch tool: the command line program        *)
(* (desqueeze_dng.py) and the GUI (simple_gui.py).                         *)
(*                                                                         *)
(* The two programs are run side by side, each on its own copy of the same *)
(* filesystem, and are fed the same answers of their environment (the      *)
(* clock, the directory enumeration, the external tool): whichever program *)
(* asks first draws the answer, the other one receives the same answer.    *)
(* When both have finished, a new round starts from the filesystems the    *)
(* round left behind.                                                      *)
(*                                                                         *)
(* Strings are sequences of tokens, paths are sequences of components.     *)
(***************************************************************************)
EXTENDS Integers, Sequences, FiniteSets, TLC

VARIABLES
    exiftool_exists,  \* Lib/exiftool-13.34_64/exiftool(-k).exe exists
    test_image,       \* names of the files in TEST_IMAGE
    cli_fs,           \* output directories as the command line program sees them
    gui_fs,           \* output directories as the GUI sees them
    clock,            \* the latest reading of datetime.now(), in seconds
    round,            \* number of the current round
    pending,          \* answers drawn by the program that is ahead, not yet received by the other
    ahead,            \* the program that drew them
    cli,              \* main(): position, locals, exit status
    gui,              \* process_files(): position, locals
    processing,       \* DesqueezeGUI.processing
    process_button,   \* DesqueezeGUI.process_button: text and state
    workers           \* threads started by start_processing() that have not ended

vars == <<exiftool_exists, test_image, cli_fs, gui_fs, clock, round, pending, ahead,
          cli, gui, processing, process_button, workers>>

----------------------------------------------------------------------------
(* Bounds *)

MaxClock == 2
MaxRuns == 2

----------------------------------------------------------------------------
(* Strings and paths *)

Arg(s) == << <<s>> >>

NoPath == <<>>

IsSpace(tok) == tok \in {" ", "\n"}

RECURSIVE lstrip(_)
lstrip(s) == IF s # <<>> /\ IsSpace(Head(s)) THEN lstrip(Tail(s)) ELSE s

RECURSIVE rstrip(_)
rstrip(s) == IF s # <<>> /\ IsSpace(s[Len(s)]) THEN rstrip(SubSeq(s, 1, Len(s) - 1)) ELSE s

strip(s) == rstrip(lstrip(s))

\* 1-based position of the last occurrence of tok in s, 0 when there is none
rfind(s, tok) ==
    LET hits == {i \in 1..Len(s) : s[i] = tok}
    IN  IF hits = {} THEN 0 ELSE CHOOSE i \in hits : \A j \in hits : j <= i

\* s.split(sep)[-1]
split_last(s, sep) == SubSeq(s, rfind(s, sep) + 1, Len(s))

\* needle in s, for a needle that is one token
contains(s, needle) == \E i \in 1..Len(s) : s[i] = needle

\* pathlib: PurePath.stem
stem(name) ==
    LET i == rfind(name, ".")
    IN  IF 1 < i /\ i < Len(name) THEN SubSeq(name, 1, i - 1) ELSE name

\* pathlib: the names Path.glob("*.dng") keeps
glob_match(name) ==
    /\ Len(name) >= 2
    /\ name[Len(name)] = "dng"
    /\ name[Len(name) - 1] = "."

\* datetime.now().strftime("%Y%m%d_%H%M%S"): one text per second
strftime(t) == [i \in 1..t |-> "s"]

Perms(S) ==
    {o \in [1..Cardinality(S) -> S] : \A i, j \in 1..Cardinality(S) : o[i] = o[j] => i = j}

----------------------------------------------------------------------------
(* The filesystem *)

NameA == <<"a", ".", "dng">>
NameDot == <<".", "dng">>
NameDotDng == <<".", "dng", ".", "dng">>
NameTxt == <<"a", ".", "txt">>
NameOld == <<"old">>

\* the contents of TEST_IMAGE a run may find
TestImages ==
    { {}, {NameTxt}, {NameA}, {NameA, NameTxt}, {NameA, NameDotDng}, {NameDot, NameDotDng} }

TEST_IMAGE == <<"TEST_IMAGE">>
OUTPUT == <<"OUTPUT">>
OUTPUT_(timestamp) == <<"OUTPUT", "_">> \o timestamp

OutDirNames == {OUTPUT} \cup {OUTPUT_(strftime(t)) : t \in 1..MaxClock}

Absent == [kind |-> "absent", files |-> {}]
Dir(files) == [kind |-> "dir", files |-> files]
RegularFile == [kind |-> "file", files |-> {}]

exists(entry) == entry.kind # "absent"

\* any(base_output_dir.iterdir()): raises on a regular file
iterdir_raises(entry) == entry.kind = "file"
any_iterdir(entry) == entry.files # {}

----------------------------------------------------------------------------
(* The environment's answers *)

NoQuery == [raised |-> FALSE, stdout |-> <<>>]
NoWrite == [raised |-> FALSE, returncode |-> 0]
NoChmod == [raised |-> FALSE]

StartAnswer(t, o) ==
    [k |-> "start", now |-> t, order |-> o,
     query |-> NoQuery, write |-> NoWrite, chmod |-> NoChmod]

FileAnswer(q, wr, ch) ==
    [k |-> "file", now |-> 0, order |-> <<>>, query |-> q, write |-> wr, chmod |-> ch]

SIRUI == "SIRUI Z 20mm f/1.8S"

\* what the tag query may print, or that starting it raises
QueryAnswers ==
    {[raised |-> TRUE, stdout |-> <<>>]} \cup
    {[raised |-> FALSE, stdout |-> s] : s \in
        { <<>>,
          <<"Lens Model", " ", ":", " ", SIRUI, "\n">>,
          <<"Lens Model", " ", ":", " ", "other">>,
          <<"Lens Model", " ", ":", " ">>,
          <<"File", ":", " ", SIRUI>> }}

WriteAnswers ==
    {[raised |-> TRUE, returncode |-> 0]} \cup
    {[raised |-> FALSE, returncode |-> rc] : rc \in {0, 1}}

ChmodAnswers == {[raised |-> b] : b \in BOOLEAN}

\* os.chmod is reached only after a write that exited with 0
FileAnswers ==
    {FileAnswer(q, wr, ch) : q \in QueryAnswers, wr \in WriteAnswers, ch \in ChmodAnswers}

FileChoices ==
    {a \in FileAnswers : (a.write.raised \/ a.write.returncode # 0) => ~a.chmod.raised}

StartChoices ==
    {StartAnswer(t, o) : t \in clock..MaxClock, o \in Perms(test_image)}

\* Program w receives answer c: the one the other program drew, or a new one.
\* The two programs are independent, so only their relative speed is fixed here:
\* a program draws a new answer once the other has received the previous one.
Answer(w, c, Choices) ==
    IF pending # <<>>
    THEN /\ ahead # w
         /\ IF \E d \in Choices : d.k = Head(pending).k
            THEN c = Head(pending) /\ pending' = Tail(pending) /\ ahead' = ahead
            ELSE c \in Choices /\ UNCHANGED <<pending, ahead>>
    ELSE c \in Choices /\ pending' = Append(pending, c) /\ ahead' = w

Offered(Choices) == Choices \cup (IF pending # <<>> THEN {Head(pending)} ELSE {})

----------------------------------------------------------------------------
(* Values shared by the two programs *)

\* a lens identifier: None, or a string
None == [none |-> TRUE, s |-> <<>>]
Str(s) == [none |-> FALSE, s |-> s]

ExiftoolPath == << <<"Lib">>, <<"exiftool-13.34_64">>, <<"exiftool(-k).exe">> >>

NoResult ==
    [result |-> FALSE, lens_model |-> None, invocations |-> <<>>,
     chmod |-> <<>>, created |-> FALSE]

NoLast == [file |-> NoPath, answer |-> FileAnswer(NoQuery, NoWrite, NoChmod), res |-> NoResult]

InitRun ==
    [pc |-> "idle", exiftool_path |-> NoPath, output_dir |-> NoPath, timestamped |-> FALSE,
     dng_files |-> <<>>, i |-> 0, success_count |-> 0, error_count |-> 0,
     invocations |-> <<>>, attempted |-> <<>>, last |-> NoLast, exit_status |-> -1]

\* the external tool leaves the output file behind when it exits with 0
exiftool_writes(f, output_file, res) ==
    IF res.created
    THEN [f EXCEPT ![output_file[2]].files = @ \cup {output_file[3]}]
    ELSE f

----------------------------------------------------------------------------
(* desqueeze_dng.py *)

\* a get_exiftool_path that hands the path back without looking for the file
get_exiftool_path_unchecked(tool_exists) ==
    [exited |-> FALSE, path |-> ExiftoolPath]

get_exiftool_path(tool_exists) ==
    IF ~tool_exists
    THEN [exited |-> TRUE, path |-> NoPath]
    ELSE [exited |-> FALSE, path |-> ExiftoolPath]

create_output_directory(f, now) ==
    LET base_output_dir == <<TEST_IMAGE, OUTPUT>>
        base == f[OUTPUT]
        occupied == exists(base) /\ any_iterdir(base)
        output_dir == IF occupied
                      THEN <<TEST_IMAGE, OUTPUT_(strftime(now))>>
                      ELSE base_output_dir
    IN  IF exists(base) /\ iterdir_raises(base)
        THEN [raised |-> TRUE, output_dir |-> NoPath, timestamped |-> FALSE, fs |-> f]
        ELSE IF f[output_dir[2]].kind = "file"
        THEN [raised |-> TRUE, output_dir |-> NoPath, timestamped |-> occupied, fs |-> f]
        ELSE [raised |-> FALSE, output_dir |-> output_dir, timestamped |-> occupied,
              fs |-> [f EXCEPT ![output_dir[2]] = Dir(@.files)]]

get_lens_info_cmd(exiftool_path, input_file) ==
    <<exiftool_path, Arg("-LensModel"), input_file>>

\* a get_lens_info that lets the error of the tag query escape
get_lens_info_raising(exiftool_path, input_file, query) ==
    IF query.raised
    THEN [raised |-> TRUE, lens_model |-> None]
    ELSE LET output == strip(query.stdout)
         IN  IF contains(output, "Lens Model")
             THEN [raised |-> FALSE, lens_model |-> Str(strip(split_last(output, ":")))]
             ELSE [raised |-> FALSE, lens_model |-> None]

get_lens_info(exiftool_path, input_file, query) ==
    IF query.raised
    THEN [raised |-> FALSE, lens_model |-> None]
    ELSE LET output == strip(query.stdout)
         IN  IF contains(output, "Lens Model")
             THEN [raised |-> FALSE, lens_model |-> Str(strip(split_last(output, ":")))]
             ELSE [raised |-> FALSE, lens_model |-> None]

\* a process_dng_file that stretches whenever a lens name was read
process_dng_file_cmd_any_lens(exiftool_path, lens_model, input_file, output_file) ==
    IF ~lens_model.none /\ lens_model.s # <<>>
    THEN <<exiftool_path, Arg("-F"), Arg("-DefaultScale=1.33 1.0"), Arg("-o"),
           output_file, input_file>>
    ELSE <<exiftool_path, Arg("-F"), Arg("-o"), output_file, input_file>>

process_dng_file_cmd(exiftool_path, lens_model, input_file, output_file) ==
    IF lens_model = Str(<<SIRUI>>)
    THEN <<exiftool_path, Arg("-F"), Arg("-DefaultScale=1.33 1.0"), Arg("-o"),
           output_file, input_file>>
    ELSE <<exiftool_path, Arg("-F"), Arg("-o"), output_file, input_file>>

\* a process_dng_file that fails the file when os.chmod raises
process_dng_file_result_chmod_fatal(write, chmod) ==
    IF write.raised
    THEN [result |-> FALSE, chmod_called |-> FALSE, created |-> FALSE]
    ELSE IF write.returncode = 0
    THEN [result |-> ~chmod.raised, chmod_called |-> TRUE, created |-> TRUE]
    ELSE [result |-> FALSE, chmod_called |-> FALSE, created |-> FALSE]

\* the part of process_dng_file after the write invocation
process_dng_file_result(write, chmod) ==
    IF write.raised
    THEN [result |-> FALSE, chmod_called |-> FALSE, created |-> FALSE]
    ELSE IF write.returncode = 0
    THEN [result |-> TRUE, chmod_called |-> TRUE, created |-> TRUE]
    ELSE [result |-> FALSE, chmod_called |-> FALSE, created |-> FALSE]

process_dng_file(exiftool_path, input_file, output_file, a) ==
    LET info == get_lens_info(exiftool_path, input_file, a.query)
        query_cmd == get_lens_info_cmd(exiftool_path, input_file)
        cmd == process_dng_file_cmd(exiftool_path, info.lens_model, input_file, output_file)
        out == process_dng_file_result(a.write, a.chmod)
    IN  IF info.raised
        THEN [result |-> FALSE, lens_model |-> None, invocations |-> <<query_cmd>>,
              chmod |-> <<>>, created |-> FALSE]
        ELSE [result |-> out.result, lens_model |-> info.lens_model,
              invocations |-> <<query_cmd, cmd>>,
              chmod |-> IF out.chmod_called THEN <<output_file>> ELSE <<>>,
              created |-> out.created]

\* list(test_image_dir.glob("*.dng")), in the order the directory is enumerated
glob(order) == [i \in 1..Len(SelectSeq(order, glob_match)) |->
                    <<TEST_IMAGE, SelectSeq(order, glob_match)[i]>>]

output_file_of(output_dir, dng_file) ==
    LET output_filename == stem(dng_file[Len(dng_file)]) \o <<"_stretched", ".", "dng">>
    IN  output_dir \o <<output_filename>>

\* a main() that ends with status 0 when it finds no input file
main_setup_empty_ok(st, tool_exists, f, a) ==
    LET tool == get_exiftool_path(tool_exists)
        made == create_output_directory(f, a.now)
        dng_files == glob(a.order)
    IN  IF tool.exited
        THEN [st |-> [st EXCEPT !.pc = "done", !.exit_status = 1], fs |-> f]
        ELSE IF made.raised
        THEN [st |-> [st EXCEPT !.pc = "done", !.exit_status = 1,
                                !.exiftool_path = tool.path,
                                !.timestamped = made.timestamped],
              fs |-> f]
        ELSE [st |-> [st EXCEPT !.pc = IF dng_files = <<>> THEN "done" ELSE "loop",
                                !.exit_status = IF dng_files = <<>> THEN 0 ELSE @,
                                !.exiftool_path = tool.path,
                                !.output_dir = made.output_dir,
                                !.timestamped = made.timestamped,
                                !.dng_files = dng_files,
                                !.success_count = 0, !.error_count = 0],
              fs |-> made.fs]

\* main() up to the loop
main_setup(st, tool_exists, f, a) ==
    LET tool == get_exiftool_path(tool_exists)
        made == create_output_directory(f, a.now)
        dng_files == glob(a.order)
    IN  IF tool.exited
        THEN [st |-> [st EXCEPT !.pc = "done", !.exit_status = 1], fs |-> f]
        ELSE IF made.raised
        THEN [st |-> [st EXCEPT !.pc = "done", !.exit_status = 1,
                                !.exiftool_path = tool.path,
                                !.timestamped = made.timestamped],
              fs |-> f]
        ELSE IF dng_files = <<>>
        THEN [st |-> [st EXCEPT !.pc = "done", !.exit_status = 1,
                                !.exiftool_path = tool.path,
                                !.output_dir = made.output_dir,
                                !.timestamped = made.timestamped],
              fs |-> made.fs]
        ELSE [st |-> [st EXCEPT !.pc = "loop",
                                !.exiftool_path = tool.path,
                                !.output_dir = made.output_dir,
                                !.timestamped = made.timestamped,
                                !.dng_files = dng_files,
                                !.success_count = 0, !.error_count = 0],
              fs |-> made.fs]

\* a loop of main() without the break
main_loop_body_no_break(st, dng_file, a, res) ==
    LET seen == [st EXCEPT !.i = @ + 1,
                           !.attempted = Append(@, dng_file),
                           !.invocations = @ \o res.invocations,
                           !.last = [file |-> dng_file, answer |-> a, res |-> res]]
        counted == IF res.result
                   THEN [seen EXCEPT !.success_count = @ + 1]
                   ELSE [seen EXCEPT !.error_count = @ + 1]
    IN  [counted EXCEPT !.pc = IF seen.i = Len(st.dng_files) THEN "end" ELSE "loop"]

\* one iteration of the loop of main(), given what process_dng_file returned
main_loop_body(st, dng_file, a, res) ==
    LET seen == [st EXCEPT !.i = @ + 1,
                           !.attempted = Append(@, dng_file),
                           !.invocations = @ \o res.invocations,
                           !.last = [file |-> dng_file, answer |-> a, res |-> res]]
    IN  IF res.result
        THEN [seen EXCEPT !.success_count = @ + 1,
                          !.pc = IF seen.i = Len(st.dng_files) THEN "end" ELSE "loop"]
        ELSE [seen EXCEPT !.error_count = @ + 1, !.pc = "end"]

\* an exit status that forgives one failure
main_exit_status_lenient(success_count, error_count) ==
    IF error_count > 1 THEN 1 ELSE 0

\* the exit status main() ends with after the loop
main_exit_status(success_count, error_count) ==
    IF error_count > 0 THEN 1 ELSE 0

\* main() after the loop: the tallies and the exit status
main_end(st) ==
    IF st.pc = "end"
    THEN [st EXCEPT !.pc = "done",
                    !.exit_status = main_exit_status(st.success_count, st.error_count)]
    ELSE st

main ==
    /\ cli.pc = "idle"
    /\ IF ~exiftool_exists
       THEN /\ cli' = main_setup(cli, exiftool_exists, cli_fs, StartAnswer(clock, <<>>)).st
            /\ UNCHANGED <<cli_fs, clock, pending, ahead>>
       ELSE \E a \in Offered(StartChoices) :
                /\ Answer("cli", a, StartChoices)
                /\ cli' = main_setup(cli, exiftool_exists, cli_fs, a).st
                /\ cli_fs' = main_setup(cli, exiftool_exists, cli_fs, a).fs
                /\ clock' = IF a.now > clock THEN a.now ELSE clock
    /\ UNCHANGED <<exiftool_exists, test_image, gui_fs, round, gui, processing,
                   process_button, workers>>

main_loop ==
    /\ cli.pc = "loop"
    /\ \E a \in Offered(FileChoices) :
           LET dng_file == cli.dng_files[cli.i + 1]
               output_file == output_file_of(cli.output_dir, dng_file)
               res == process_dng_file(cli.exiftool_path, dng_file, output_file, a)
           IN  /\ Answer("cli", a, FileChoices)
               /\ cli' = main_end(main_loop_body(cli, dng_file, a, res))
               /\ cli_fs' = exiftool_writes(cli_fs, output_file, res)
    /\ UNCHANGED <<exiftool_exists, test_image, gui_fs, clock, round, gui, processing,
                   process_button, workers>>

----------------------------------------------------------------------------
(* simple_gui.py *)

DesqueezeGUI_get_exiftool_path(tool_exists) ==
    IF ~tool_exists THEN NoPath ELSE ExiftoolPath

DesqueezeGUI_create_output_directory(f, now) ==
    LET base_output_dir == <<TEST_IMAGE, OUTPUT>>
        base == f[OUTPUT]
        occupied == exists(base) /\ any_iterdir(base)
        output_dir == IF occupied
                      THEN <<TEST_IMAGE, OUTPUT_(strftime(now))>>
                      ELSE base_output_dir
    IN  IF exists(base) /\ iterdir_raises(base)
        THEN [raised |-> TRUE, output_dir |-> NoPath, timestamped |-> FALSE, fs |-> f]
        ELSE IF f[output_dir[2]].kind = "file"
        THEN [raised |-> TRUE, output_dir |-> NoPath, timestamped |-> occupied, fs |-> f]
        ELSE [raised |-> FALSE, output_dir |-> output_dir, timestamped |-> occupied,
              fs |-> [f EXCEPT ![output_dir[2]] = Dir(@.files)]]

DesqueezeGUI_get_lens_info_cmd(exiftool_path, input_file) ==
    <<exiftool_path, Arg("-LensModel"), input_file>>

DesqueezeGUI_get_lens_info(exiftool_path, input_file, query) ==
    IF query.raised
    THEN [raised |-> FALSE, lens_model |-> None]
    ELSE LET output == strip(query.stdout)
         IN  IF contains(output, "Lens Model")
             THEN [raised |-> FALSE, lens_model |-> Str(strip(split_last(output, ":")))]
             ELSE [raised |-> FALSE, lens_model |-> None]

\* a GUI that leaves the force flag out of the copy
DesqueezeGUI_process_dng_file_cmd_no_force(exiftool_path, lens_model, input_file, output_file) ==
    IF lens_model = Str(<<SIRUI>>)
    THEN <<exiftool_path, Arg("-F"), Arg("-DefaultScale=1.33 1.0"), Arg("-o"),
           output_file, input_file>>
    ELSE <<exiftool_path, Arg("-o"), output_file, input_file>>

DesqueezeGUI_process_dng_file_cmd(exiftool_path, lens_model, input_file, output_file) ==
    IF lens_model = Str(<<SIRUI>>)
    THEN <<exiftool_path, Arg("-F"), Arg("-DefaultScale=1.33 1.0"), Arg("-o"),
           output_file, input_file>>
    ELSE <<exiftool_path, Arg("-F"), Arg("-o"), output_file, input_file>>

DesqueezeGUI_process_dng_file_result(write, chmod) ==
    IF write.raised
    THEN [result |-> FALSE, chmod_called |-> FALSE, created |-> FALSE]
    ELSE IF write.returncode = 0
    THEN [result |-> TRUE, chmod_called |-> TRUE, created |-> TRUE]
    ELSE [result |-> FALSE, chmod_called |-> FALSE, created |-> FALSE]

DesqueezeGUI_process_dng_file(exiftool_path, input_file, output_file, a) ==
    LET info == DesqueezeGUI_get_lens_info(exiftool_path, input_file, a.query)
        query_cmd == DesqueezeGUI_get_lens_info_cmd(exiftool_path, input_file)
        cmd == DesqueezeGUI_process_dng_file_cmd(exiftool_path, info.lens_model,
                                                 input_file, output_file)
        out == DesqueezeGUI_process_dng_file_result(a.write, a.chmod)
    IN  IF info.raised
        THEN [result |-> FALSE, lens_model |-> None, invocations |-> <<query_cmd>>,
              chmod |-> <<>>, created |-> FALSE]
        ELSE [result |-> out.result, lens_model |-> info.lens_model,
              invocations |-> <<query_cmd, cmd>>,
              chmod |-> IF out.chmod_called THEN <<output_file>> ELSE <<>>,
              created |-> out.created]

\* process_files() up to the loop
process_files_setup(st, tool_exists, f, a) ==
    LET exiftool_path == DesqueezeGUI_get_exiftool_path(tool_exists)
        made == DesqueezeGUI_create_output_directory(f, a.now)
        dng_files == glob(a.order)
    IN  IF exiftool_path = NoPath
        THEN [st |-> [st EXCEPT !.pc = "done"], fs |-> f]
        ELSE IF made.raised
        THEN [st |-> [st EXCEPT !.pc = "done",
                                !.exiftool_path = exiftool_path,
                                !.timestamped = made.timestamped], fs |-> f]
        ELSE IF dng_files = <<>>
        THEN [st |-> [st EXCEPT !.pc = "done",
                                !.exiftool_path = exiftool_path,
                                !.output_dir = made.output_dir,
                                !.timestamped = made.timestamped],
              fs |-> made.fs]
        ELSE [st |-> [st EXCEPT !.pc = "loop",
                                !.exiftool_path = exiftool_path,
                                !.output_dir = made.output_dir,
                                !.timestamped = made.timestamped,
                                !.dng_files = dng_files,
                                !.success_count = 0, !.error_count = 0],
              fs |-> made.fs]

\* one iteration of the loop of process_files(), given what process_dng_file returned
process_files_loop_body(st, dng_file, a, res) ==
    LET seen == [st EXCEPT !.i = @ + 1,
                           !.attempted = Append(@, dng_file),
                           !.invocations = @ \o res.invocations,
                           !.last = [file |-> dng_file, answer |-> a, res |-> res]]
    IN  IF res.result
        THEN [seen EXCEPT !.success_count = @ + 1,
                          !.pc = IF seen.i = Len(st.dng_files) THEN "end" ELSE "loop"]
        ELSE [seen EXCEPT !.error_count = @ + 1, !.pc = "end"]

\* process_files() without its finally clause: the thread ends and resets nothing
process_files_finally_missing ==
    /\ UNCHANGED <<processing, process_button>>
    /\ workers' = workers - 1

\* the finally clause of process_files(), the last statements of the thread. The
\* button is disabled until the last of them, so no activation falls between them.
process_files_finally ==
    /\ processing' = FALSE
    /\ process_button' = [text |-> "Process DNG Files", state |-> "normal"]
    /\ workers' = workers - 1

\* start_processing() without the test of the processing flag
start_processing_unguarded ==
    /\ gui.pc # "done"
    /\ workers < 2
    /\ processing' = TRUE
    /\ process_button' = [text |-> "Processing...", state |-> "disabled"]
    /\ workers' = workers + 1
    /\ gui' = IF gui.pc = "idle" THEN [gui EXCEPT !.pc = "start"] ELSE gui
    /\ UNCHANGED <<exiftool_exists, test_image, cli_fs, gui_fs, clock, round, pending, ahead,
                   cli>>

\* an activation of the button. While the worker is at work the command is called
\* as well, although Tk drops the activation of a disabled button: the
\* processing flag alone has to stop a second thread.
start_processing ==
    /\ IF processing
       THEN UNCHANGED <<gui, processing, process_button, workers>>
       ELSE /\ gui.pc = "idle"
            /\ processing' = TRUE
            /\ process_button' = [text |-> "Processing...", state |-> "disabled"]
            /\ workers' = workers + 1
            /\ gui' = [gui EXCEPT !.pc = "start"]
    /\ UNCHANGED <<exiftool_exists, test_image, cli_fs, gui_fs, clock, round, pending, ahead,
                   cli>>

process_files ==
    /\ gui.pc = "start"
    /\ IF ~exiftool_exists
       THEN /\ gui' = process_files_setup(gui, exiftool_exists, gui_fs,
                                          StartAnswer(clock, <<>>)).st
            /\ process_files_finally
            /\ UNCHANGED <<gui_fs, clock, pending, ahead>>
       ELSE \E a \in Offered(StartChoices) :
                LET out == process_files_setup(gui, exiftool_exists, gui_fs, a)
                IN  /\ Answer("gui", a, StartChoices)
                    /\ gui' = out.st
                    /\ gui_fs' = out.fs
                    /\ clock' = IF a.now > clock THEN a.now ELSE clock
                    /\ IF out.st.pc = "done"
                       THEN process_files_finally
                       ELSE UNCHANGED <<processing, process_button, workers>>
    /\ UNCHANGED <<exiftool_exists, test_image, cli_fs, round, cli>>

process_files_loop ==
    /\ gui.pc = "loop"
    /\ \E a \in Offered(FileChoices) :
           LET dng_file == gui.dng_files[gui.i + 1]
               output_file == output_file_of(gui.output_dir, dng_file)
               res == DesqueezeGUI_process_dng_file(gui.exiftool_path, dng_file,
                                                    output_file, a)
               st == process_files_loop_body(gui, dng_file, a, res)
           IN  /\ Answer("gui", a, FileChoices)
               /\ gui_fs' = exiftool_writes(gui_fs, output_file, res)
               /\ IF st.pc = "end"
                  THEN gui' = [st EXCEPT !.pc = "done"] /\ process_files_finally
                  ELSE gui' = st /\ UNCHANGED <<processing, process_button, workers>>
    /\ UNCHANGED <<exiftool_exists, test_image, cli_fs, clock, round, cli>>

----------------------------------------------------------------------------
(* The runs *)

\* both programs have finished: the next round runs them again on what they left
NewRound ==
    /\ cli.pc = "done"
    /\ gui.pc = "done"
    /\ round < MaxRuns
    /\ round' = round + 1
    /\ cli' = InitRun
    /\ gui' = InitRun
    /\ pending' = <<>>
    /\ ahead' = "cli"
    /\ UNCHANGED <<exiftool_exists, test_image, cli_fs, gui_fs, clock, processing,
                   process_button, workers>>

InitialOutput == {Absent, RegularFile, Dir({}), Dir({NameOld})}

Init ==
    /\ exiftool_exists \in BOOLEAN
    /\ test_image \in TestImages
    /\ \E base \in InitialOutput :
           /\ cli_fs = [d \in OutDirNames |-> IF d = OUTPUT THEN base ELSE Absent]
           /\ gui_fs = cli_fs
    /\ clock = 1
    /\ round = 1
    /\ pending = <<>>
    /\ ahead = "cli"
    /\ cli = InitRun
    /\ gui = InitRun
    /\ processing = FALSE
    /\ process_button = [text |-> "Process DNG Files", state |-> "normal"]
    /\ workers = 0

Next ==
    \/ main
    \/ main_loop
    \/ start_processing
    \/ process_files
    \/ process_files_loop
    \/ NewRound

Spec == Init /\ [][Next]_vars

\* a program can receive its next answer: none is pending, or the other drew it
CanReceive(w) == pending = <<>> \/ ahead # w

main_loop_enabled == cli.pc = "loop" /\ CanReceive("cli")
process_files_loop_enabled == gui.pc = "loop" /\ CanReceive("gui")

\* The worker thread and the command line process are scheduled by the operating
\* system and every invocation of the external tool returns: a segment of either
\* program that can run does run. For the two loops this is weak fairness with
\* ENABLED written out as the state predicate it equals.
FairSpec ==
    /\ Spec
    /\ WF_vars(main)
    /\ WF_vars(process_files)
    /\ []<>(~main_loop_enabled) \/ []<><<main_loop>>_vars
    /\ []<>(~process_files_loop_enabled) \/ []<><<process_files_loop>>_vars

----------------------------------------------------------------------------
(* Properties *)

Programs == {"cli", "gui"}
Run(w) == IF w = "cli" THEN cli ELSE gui
Fs(w) == IF w = "cli" THEN cli_fs ELSE gui_fs

\* the names of TEST_IMAGE that end in .dng
DngNames == {n \in test_image : Len(n) >= 2 /\ n[Len(n)] = "dng" /\ n[Len(n) - 1] = "."}

ScaleArg == Arg("-DefaultScale=1.33 1.0")
HasScale(cmd) == \E k \in 1..Len(cmd) : cmd[k] = ScaleArg

\* the file the program has just been through, and the write invocation made for it
Attempted(w) == Run(w).attempted # <<>>
LastWrite(w) == Run(w).last.res.invocations[2]
LastOutput(w) ==
    Run(w).output_dir \o
        << stem(Run(w).last.file[2]) \o <<"_stretched", ".", "dng">> >>

CopyOnly(w) ==
    LastWrite(w) = <<ExiftoolPath, Arg("-F"), Arg("-o"), LastOutput(w), Run(w).last.file>>

C2_FailFast ==
    \A w \in Programs :
        LET st == Run(w)
        IN  /\ st.success_count + st.error_count = Len(st.attempted)
            /\ Len(st.attempted) <= Len(st.dng_files)
            /\ st.attempted = SubSeq(st.dng_files, 1, Len(st.attempted))
            /\ st.error_count <= 1
            /\ st.error_count = 1 =>
                   /\ st.pc = "done"
                   /\ ~st.last.res.result
                   /\ st.last.file = st.attempted[Len(st.attempted)]

C2_Witness ==
    /\ cli.error_count = 1
    /\ Len(cli.attempted) = 1
    /\ Len(cli.dng_files) = 2
    /\ cli.pc = "done"

\* C3: main ends with exit status 0 exactly when at least one input file was
\* found and every found file was processed successfully; it ends with status 1
\* when no input file is found, when a file fails, and when the tool is missing.
C3_ExitStatus ==
    cli.pc = "done" =>
        /\ cli.exit_status \in {0, 1}
        /\ cli.exit_status = 0 <=>
               /\ DngNames # {}
               /\ Len(cli.attempted) = Cardinality(DngNames)
               /\ cli.success_count = Cardinality(DngNames)
               /\ cli.error_count = 0
        /\ (~exiftool_exists \/ DngNames = {} \/ cli.error_count > 0) => cli.exit_status = 1

C3_Witness ==
    /\ cli.pc = "done"
    /\ cli.exit_status = 0
    /\ cli.success_count = 2

\* C4: whenever create_output_directory is called while TEST_IMAGE/OUTPUT exists
\* and is not empty, the directory it returns is not the base and is empty at the
\* moment it is returned, whatever earlier runs left in the filesystem.
C4_FreshDirectory ==
    \A w \in Programs :
        LET st == Run(w)
        IN  (st.timestamped /\ st.output_dir # NoPath /\ st.attempted = <<>>) =>
                /\ st.output_dir # <<TEST_IMAGE, OUTPUT>>
                /\ Fs(w)[st.output_dir[2]].files = {}

IsWrite(cmd) == Len(cmd) >= 4
OutputOf(cmd) == cmd[Len(cmd) - 1]
InputOf(cmd) == cmd[Len(cmd)]
Writes(w) == SelectSeq(Run(w).invocations, IsWrite)

\* C5: the output path passed to the external tool is the run's output directory
\* joined with input stem + '_stretched' + '.dng'; it is never the path of an
\* input file of the run, and distinct input files of one run get distinct
\* output paths.
C5_OutputPaths ==
    \A w \in Programs :
        \A k \in 1..Len(Writes(w)) :
            LET cmd == Writes(w)[k]
                name == InputOf(cmd)[2]
            IN  /\ OutputOf(cmd) =
                       Run(w).output_dir \o << stem(name) \o <<"_stretched", ".", "dng">> >>
                /\ \A j \in 1..Len(Run(w).dng_files) : OutputOf(cmd) # Run(w).dng_files[j]
                /\ \A j \in 1..Len(Writes(w)) :
                       InputOf(Writes(w)[j]) # InputOf(cmd) =>
                           OutputOf(Writes(w)[j]) # OutputOf(cmd)

\* the only change from filesystem f to g is that the directory st.output_dir was made
OnlyOutputDirMade(f, g, st) ==
    \A d \in OutDirNames :
        g[d] # f[d] => st.output_dir = <<TEST_IMAGE, d>> /\ f[d] = Absent /\ g[d] = Dir({})

\* C6: when TEST_IMAGE holds no .dng file, a run ends at once (the command line
\* program with exit status 1, the GUI worker by returning), makes no invocation
\* of the external tool, creates no output file, and changes nothing in the
\* filesystem but the output directory it makes.
C6_NoInput ==
    [][DngNames = {} =>
        /\ (cli.pc = "idle" /\ cli'.pc # "idle") =>
               /\ cli'.pc = "done"
               /\ cli'.exit_status = 1
               /\ cli'.invocations = <<>>
               /\ cli'.attempted = <<>>
               /\ OnlyOutputDirMade(cli_fs, cli_fs', cli')
        /\ (gui.pc = "start" /\ gui'.pc # "start") =>
               /\ gui'.pc = "done"
               /\ gui'.invocations = <<>>
               /\ gui'.attempted = <<>>
               /\ OnlyOutputDirMade(gui_fs, gui_fs', gui')
        /\ cli.pc # "idle" => cli_fs' = cli_fs
        /\ gui.pc # "start" => gui_fs' = gui_fs]_vars

C6_Witness ==
    /\ DngNames = {}
    /\ test_image # {}
    /\ exiftool_exists
    /\ cli.pc = "done"
    /\ cli.exit_status = 1
    /\ cli.output_dir = <<TEST_IMAGE, OUTPUT_(strftime(1))>>
    /\ cli_fs[OUTPUT_(strftime(1))] = Dir({})
    /\ cli.invocations = <<>>
    /\ gui.pc = "done"
    /\ gui.output_dir = cli.output_dir

\* C7: when the external tool is absent the run reports it and ends at once: no
\* output directory is made or resolved, no input file is enumerated or
\* processed, no invocation is made; the command line program exits with
\* status 1 and the GUI worker returns.
C7_MissingTool ==
    [][~exiftool_exists =>
        /\ cli_fs' = cli_fs
        /\ gui_fs' = gui_fs
        /\ (cli.pc = "idle" /\ cli'.pc # "idle") =>
               /\ cli'.pc = "done"
               /\ cli'.exit_status = 1
               /\ cli'.output_dir = NoPath
               /\ cli'.dng_files = <<>>
               /\ cli'.attempted = <<>>
               /\ cli'.invocations = <<>>
        /\ (gui.pc = "start" /\ gui'.pc # "start") =>
               /\ gui'.pc = "done"
               /\ gui'.output_dir = NoPath
               /\ gui'.dng_files = <<>>
               /\ gui'.attempted = <<>>
               /\ gui'.invocations = <<>>
               /\ ~processing']_vars

C7_Witness ==
    /\ ~exiftool_exists
    /\ DngNames # {}
    /\ cli.pc = "done"
    /\ cli.exit_status = 1
    /\ cli_fs[OUTPUT] = Absent
    /\ gui.pc = "done"
    /\ gui_fs[OUTPUT] = Absent
    /\ ~processing

QueryFailed(query) == query.raised \/ ~contains(query.stdout, "Lens Model")
WriteSucceeded(write) == ~write.raised /\ write.returncode = 0
MoreFiles(st) == Len(st.attempted) < Len(st.dng_files)

\* C8: a failure while reading the lens tag (the tag query raising, or its output
\* lacking 'Lens Model') fails neither the file nor the batch: get_lens_info
\* returns None, the file is written by the copy-only invocation, and when that
\* copy succeeds the batch goes on with the next file.
C8_LensFailureIsNoFailure ==
    \A w \in Programs :
        LET st == Run(w)
        IN  (Attempted(w) /\ QueryFailed(st.last.answer.query)) =>
                /\ st.last.res.lens_model = None
                /\ Len(st.last.res.invocations) = 2
                /\ CopyOnly(w)
                /\ WriteSucceeded(st.last.answer.write) =>
                       /\ st.last.res.result
                       /\ st.error_count = 0
                       /\ st.success_count = Len(st.attempted)
                       /\ MoreFiles(st) => st.pc = "loop"

C8_Witness ==
    /\ Attempted("cli")
    /\ cli.last.answer.query.raised
    /\ cli.last.res.result
    /\ cli.pc = "loop"
    /\ cli.success_count = 1

\* C9: the exit code of the write invocation alone decides the outcome of a file:
\* with 0 the file counts as a success even when os.chmod on the output fails,
\* and the batch goes on; with another code the file counts as a failure and no
\* permission change is attempted.
C9_ExitCodeDecides ==
    \A w \in Programs :
        LET st == Run(w)
            write == st.last.answer.write
        IN  (Attempted(w) /\ Len(st.last.res.invocations) = 2 /\ ~write.raised) =>
                /\ write.returncode = 0 =>
                       /\ st.last.res.result
                       /\ st.last.res.chmod = <<LastOutput(w)>>
                       /\ st.error_count = 0
                       /\ st.success_count = Len(st.attempted)
                       /\ MoreFiles(st) => st.pc = "loop"
                /\ write.returncode # 0 =>
                       /\ ~st.last.res.result
                       /\ st.last.res.chmod = <<>>
                       /\ st.error_count = 1
                       /\ st.pc = "done"

C9_Witness ==
    /\ Attempted("gui")
    /\ gui.last.answer.write.returncode = 0
    /\ ~gui.last.answer.write.raised
    /\ gui.last.answer.chmod.raised
    /\ gui.last.res.result
    /\ gui.pc = "loop"

C11_OneWorker ==
    [][/\ workers' <= 1
       /\ processing' = (workers' = 1)
       /\ (workers' > workers) => (workers = 0 /\ ~processing)
       /\ (processing /\ gui' = gui) => UNCHANGED <<processing, process_button, workers>>]_vars

C11_Witness ==
    /\ round = 2
    /\ workers = 1
    /\ processing
    /\ gui.pc = "loop"
    /\ process_button.state = "disabled"

Idle == ~processing /\ process_button.state = "normal"

\* C12: when every invocation of the external tool returns, every batch that was
\* started brings the GUI back to idle (processing flag false, button enabled),
\* whichever way process_files ends: tool missing, no input file, first failure,
\* full success or unexpected exception; 'Processing...' never stays.
C12_ReturnsToIdle ==
    /\ processing ~> Idle
    /\ [][(gui.pc # "done" /\ gui'.pc = "done") =>
               (Idle' /\ process_button'.text = "Process DNG Files")]_vars

\* a batch ended by the exception of create_output_directory, back to idle
C12_Witness ==
    /\ Idle
    /\ gui.pc = "done"
    /\ exiftool_exists
    /\ gui_fs[OUTPUT] = RegularFile
    /\ gui.output_dir = NoPath
    /\ round = 2

====
